---- MODULE Spec2Model ----
(***************************************************************************)
(* State-machine model of rbac-srvc: the services, roles and rolexpand     *)
(* routes over the two MongoDB collections "services" and "roles".         *)
(*                                                                         *)
(* A request handler runs from one await on the store to the next as one   *)
(* atomic step; between two store accesses of one request the steps of     *)
(* other requests may interleave.  A request that is between two store     *)
(* accesses occupies a slot of `inflight`; the response of the request     *)
(* that finished last is kept in `resp`.                                   *)
(*                                                                         *)
(* Names are modelled by their length, the only attribute of a name the    *)
(* code inspects.  Identifiers are natural numbers handed out by one       *)
(* counter per collection; 0 is an identifier that was never issued.       *)
(***************************************************************************)
EXTENDS Integers, Sequences, FiniteSets, TLC

VARIABLES
    services,    \* the "services" collection, in insertion order
    roles,       \* the "roles" collection, in insertion order
    nextSvcId,   \* next _id of a service document
    nextOpId,    \* next _id of an operation sub-document
    nextRoleId,  \* next _id of a role document
    inflight,    \* per slot: the request that is between two store accesses
    resp,        \* the response sent last
    svcDeleted,  \* history: some service document has been deleted
    cap          \* how many _ids of each kind a run may issue (fixed by Init)

vars == <<services, roles, nextSvcId, nextOpId, nextRoleId, inflight, resp, svcDeleted,
          cap>>

----------------------------------------------------------------------------
(* Bounds of the model *)

MaxSvcs == 2       \* service documents of a collection drawn for validateServiceOps
MaxOps == 2        \* operation sub-documents of such a collection
MaxList == 2       \* longest serviceOpIds / roleIds / operations list of a request
MaxSlots == 2      \* requests that may be in flight at once

(* Program constants *)

SERVICENAME_MIN_LENGTH == 4
SERVICENAME_MAX_LENGTH == 30
ROLENAME_MIN_LENGTH == 4
ROLENAME_MAX_LENGTH == 40

----------------------------------------------------------------------------
(* Input domains *)

Slots == DOMAIN inflight
UnknownId == 0
OpNames == {"a", "b"}
SvcNameLens == {SERVICENAME_MIN_LENGTH - 1, SERVICENAME_MIN_LENGTH,
                SERVICENAME_MAX_LENGTH, SERVICENAME_MAX_LENGTH + 1}
RoleNameLens == {ROLENAME_MIN_LENGTH - 1, ROLENAME_MIN_LENGTH,
                 ROLENAME_MAX_LENGTH, ROLENAME_MAX_LENGTH + 1}

SeqsUpTo(S, n) == UNION {[1..k -> S] : k \in 0..n}

\* identifiers a client can put in a request: the ones issued so far and
\* one that matches nothing
KnownSvcIds == 0..(nextSvcId - 1)
KnownOpIds == 0..(nextOpId - 1)
KnownRoleIds == 0..(nextRoleId - 1)

----------------------------------------------------------------------------
(* Errors and their mapping to a response status *)

NoError == [cls |-> "none", httpStatus |-> 0]
Error == [cls |-> "Error", httpStatus |-> 0]
RouteHandlingError(httpStatus) == [cls |-> "RouteHandlingError", httpStatus |-> httpStatus]

\* A RouteHandlingError carries its own status; anything else thrown in a
\* handler is an unexpected failure.
RouteErrorFormatter(ex) ==
    IF ex.cls = "RouteHandlingError" THEN ex ELSE RouteHandlingError(500)

\* status of the response: okStatus unless something was thrown
StatusOf(thrown, okStatus) ==
    IF thrown.cls = "none" THEN okStatus ELSE RouteErrorFormatter(thrown).httpStatus

\* mutant: a failure of the audit service is swallowed
sendAudit_ignored(auditEnabled, sinkUp) == NoError

\* sendAudit: does nothing unless auditing is enabled; a failure of the
\* audit service surfaces as 424
sendAudit(auditEnabled, sinkUp) ==
    IF auditEnabled /\ ~sinkUp THEN RouteHandlingError(424) ELSE NoError

----------------------------------------------------------------------------
(* Validation *)

\* mutant: the lower bound of the name taken as exclusive
validateService_minExclusive(srvc) ==
    IF srvc.name > SERVICENAME_MIN_LENGTH /\ srvc.name <= SERVICENAME_MAX_LENGTH
    THEN NoError
    ELSE RouteHandlingError(400)

validateService(srvc) ==
    IF srvc.name >= SERVICENAME_MIN_LENGTH /\ srvc.name <= SERVICENAME_MAX_LENGTH
    THEN NoError
    ELSE RouteHandlingError(400)

validateRole(role) ==
    [error |-> ~(role.name >= ROLENAME_MIN_LENGTH /\ role.name <= ROLENAME_MAX_LENGTH)]

\* innermost loop of validateServiceOps: operations of one service
RECURSIVE opsLoop(_, _, _)
opsLoop(operations, srvOps, opId) ==
    IF srvOps > Len(operations) THEN FALSE
    ELSE IF operations[srvOps].id = opId THEN TRUE
    ELSE opsLoop(operations, srvOps + 1, opId)

\* middle loop: the services, until the identifier is found
RECURSIVE srvLoop(_, _, _)
srvLoop(svcs, srvIdx, opId) ==
    IF srvIdx > Len(svcs) THEN FALSE
    ELSE IF opsLoop(svcs[srvIdx].operations, 1, opId) THEN TRUE
    ELSE srvLoop(svcs, srvIdx + 1, opId)

\* outer loop: the identifiers, while isValid
RECURSIVE idsLoop(_, _, _)
idsLoop(serviceOpIds, i, svcs) ==
    IF i > Len(serviceOpIds) THEN TRUE
    ELSE IF srvLoop(svcs, 1, serviceOpIds[i]) THEN idsLoop(serviceOpIds, i + 1, svcs)
    ELSE FALSE

\* mutant: the outer loop without its `isValid === true` condition, so
\* that the verdict is that of the last identifier
validateServiceOps_lastOnly(serviceOpIds, svcs) ==
    Len(serviceOpIds) = 0 \/ srvLoop(svcs, 1, serviceOpIds[Len(serviceOpIds)])

\* mutant: validation that accepts everything
validateServiceOps_acceptAll(serviceOpIds, svcs) == TRUE

validateServiceOps(serviceOpIds, svcs) == idsLoop(serviceOpIds, 1, svcs)

----------------------------------------------------------------------------
(* Store access *)

\* position of the document with this _id in a collection, 0 when absent
IndexOf(coll, id) ==
    IF \E i \in DOMAIN coll : coll[i].id = id
    THEN CHOOSE i \in DOMAIN coll : coll[i].id = id
    ELSE 0

\* mutant: a lookup that falls back to the first document of the collection
findById_orFirst(coll, id) ==
    IF IndexOf(coll, id) # 0 THEN <<coll[IndexOf(coll, id)]>>
    ELSE IF coll # <<>> THEN <<coll[1]>> ELSE <<>>

\* Model.findById: <<doc>> or <<>> (null)
findById(coll, id) ==
    IF IndexOf(coll, id) = 0 THEN <<>> ELSE <<coll[IndexOf(coll, id)]>>

\* mutant: the documents stored after the matching one go with it
deleteOne_andLater(coll, id) ==
    IF IndexOf(coll, id) = 0 THEN coll ELSE SubSeq(coll, 1, IndexOf(coll, id) - 1)

\* Model.deleteOne({_id})
deleteOne(coll, id) == SelectSeq(coll, LAMBDA doc : doc.id # id)

\* sub-documents for the operations of a request, with fresh _ids
NewOps(names, firstId) ==
    [i \in 1..Len(names) |-> [id |-> firstId + i - 1, name |-> names[i]]]

Idle == [kind |-> "idle"]

\* What is kept of a response: the route, the status, the body of an
\* expansion, and observations on the request for the properties below:
\*   nameOk      the name of the request was within its bounds
\*   refsKnown   every serviceOpId of the request was registered when validated
\*   found       the document addressed by the request existed at its last step
\*   raced       a service was deleted between validation and write
\*   dangling    the role was written with an unregistered serviceOpId
\*   dirty       the roles collection changed during the expansion
\*   auditFailed sendAudit threw
NoObs == [nameOk |-> TRUE, refsKnown |-> TRUE, found |-> TRUE, raced |-> FALSE,
          dangling |-> FALSE, dirty |-> FALSE, auditFailed |-> FALSE]
NoResp == [op |-> "none", status |-> 0, body |-> <<>>, obs |-> NoObs]
Response(op, status, body, obs) ==
    [op |-> op, status |-> status, body |-> body, obs |-> obs]

----------------------------------------------------------------------------
(* History bookkeeping on the requests in flight *)

\* a service document was removed while role requests were between their
\* validation and their write
MarkRaced(infl) ==
    [s \in Slots |->
        IF infl[s].kind \in {"rolesPost", "rolesPut"}
        THEN [infl[s] EXCEPT !.raced = TRUE] ELSE infl[s]]

\* the roles collection changed while expansions were between two lookups:
\* they are marked, and the collection as it is now joins the collections
\* that existed during the request
MarkDirty(infl) ==
    [s \in Slots |->
        IF infl[s].kind = "rolexpand"
        THEN [infl[s] EXCEPT !.dirty = TRUE, !.seen = @ \cup {roles'}]
        ELSE infl[s]]

\* identifiers of all operations of all services of a collection
AllOpIds(svcs) ==
    UNION {{svcs[i].operations[j].id : j \in DOMAIN svcs[i].operations} : i \in DOMAIN svcs}

\* every identifier of the list is the identifier of a registered operation
AllKnown(serviceOpIds, svcs) ==
    \A i \in DOMAIN serviceOpIds : serviceOpIds[i] \in AllOpIds(svcs)

\* role requests that passed validation and whose role is not yet saved
PendingRolePosts == Cardinality({s \in Slots : inflight[s].kind = "rolesPost"})

----------------------------------------------------------------------------
(* /api/v1/services *)

\* POST /api/v1/services
ServicesPost(newService, auditEnabled, sinkUp) ==
    LET invalid == validateService(newService)
        newServiceObj == [id |-> nextSvcId, name |-> newService.name,
                          operations |-> NewOps(newService.operations, nextOpId),
                          v |-> 0]
        audit == sendAudit(auditEnabled, sinkUp)
    IN IF invalid.cls # "none"
       THEN /\ resp' = Response("servicesPost", StatusOf(invalid, 201), <<>>,
                                [NoObs EXCEPT !.nameOk = FALSE])
            /\ UNCHANGED <<services, roles, nextSvcId, nextOpId, nextRoleId,
                           inflight, svcDeleted, cap>>
       ELSE /\ nextSvcId <= cap.svcs
            /\ nextOpId + Len(newService.operations) - 1 <= cap.ops
            /\ services' = Append(services, newServiceObj)
            /\ nextSvcId' = nextSvcId + 1
            /\ nextOpId' = nextOpId + Len(newService.operations)
            /\ resp' = Response("servicesPost", StatusOf(audit, 201), <<>>,
                                [NoObs EXCEPT !.auditFailed = audit.cls # "none"])
            /\ UNCHANGED <<roles, nextRoleId, inflight, svcDeleted, cap>>

\* POST /api/v1/services/operation, up to the save: findById, then the
\* pushes on the loaded document (each pushed sub-document gets its _id)
ServicesPostOperation(s, srvcOpAdd) ==
    /\ inflight[s].kind = "idle"
    /\ LET srvc == findById(services, srvcOpAdd.id)
       IN IF srvc = <<>>
          THEN /\ resp' = Response("servicesPostOperation",
                                   StatusOf(RouteHandlingError(404), 201), <<>>,
                                   [NoObs EXCEPT !.found = FALSE])
               /\ UNCHANGED <<services, roles, nextSvcId, nextOpId, nextRoleId,
                              inflight, svcDeleted, cap>>
          ELSE /\ nextOpId + Len(srvcOpAdd.operations) - 1 <= cap.ops
               /\ inflight' = [inflight EXCEPT ![s] =
                      [kind |-> "servicesPostOperation", id |-> srvcOpAdd.id,
                       pushed |-> NewOps(srvcOpAdd.operations, nextOpId)]]
               /\ nextOpId' = nextOpId + Len(srvcOpAdd.operations)
               /\ UNCHANGED <<services, roles, nextSvcId, nextRoleId, resp, svcDeleted, cap>>

\* mutant: the save writes the operations as the request loaded them,
\* followed by its own: operations appended since then are overwritten
ServicesPostOperationSave_overwrites(s, auditEnabled, sinkUp) ==
    /\ inflight[s].kind = "servicesPostOperation"
    /\ LET r == inflight[s]
           idx == IndexOf(services, r.id)
           audit == sendAudit(auditEnabled, sinkUp)
       IN IF idx = 0
          THEN /\ resp' = Response("servicesPostOperation", StatusOf(Error, 201), <<>>,
                                   [NoObs EXCEPT !.found = FALSE])
               /\ UNCHANGED services
          ELSE /\ services' = [services EXCEPT
                      ![idx].operations =
                          IF r.pushed = <<>> THEN @
                          ELSE SelectSeq(@, LAMBDA op : op.id < r.pushed[1].id)
                                  \o r.pushed,
                      ![idx].v = IF r.pushed = <<>> THEN @ ELSE @ + 1]
               /\ resp' = Response("servicesPostOperation", StatusOf(audit, 201), <<>>,
                                   [NoObs EXCEPT !.auditFailed = audit.cls # "none"])
    /\ inflight' = [inflight EXCEPT ![s] = Idle]
    /\ UNCHANGED <<roles, nextSvcId, nextOpId, nextRoleId, svcDeleted, cap>>

\* mutant: a pushed operation whose name the service already has is dropped
ServicesPostOperationSave_dedup(s, auditEnabled, sinkUp) ==
    /\ inflight[s].kind = "servicesPostOperation"
    /\ LET r == inflight[s]
           idx == IndexOf(services, r.id)
           audit == sendAudit(auditEnabled, sinkUp)
       IN IF idx = 0
          THEN /\ resp' = Response("servicesPostOperation", StatusOf(Error, 201), <<>>,
                                   [NoObs EXCEPT !.found = FALSE])
               /\ UNCHANGED services
          ELSE /\ services' = [services EXCEPT
                      ![idx].operations = @ \o
                          SelectSeq(r.pushed, LAMBDA new :
                              \A j \in DOMAIN services[idx].operations :
                                  services[idx].operations[j].name # new.name),
                      ![idx].v = IF r.pushed = <<>> THEN @ ELSE @ + 1]
               /\ resp' = Response("servicesPostOperation", StatusOf(audit, 201), <<>>,
                                   [NoObs EXCEPT !.auditFailed = audit.cls # "none"])
    /\ inflight' = [inflight EXCEPT ![s] = Idle]
    /\ UNCHANGED <<roles, nextSvcId, nextOpId, nextRoleId, svcDeleted, cap>>

\* ... its srvc.save(): the pushes reach the stored document as one $push
\* (which increments the version key); the save fails when the document is
\* gone.  Then sendAudit and the response.
ServicesPostOperationSave(s, auditEnabled, sinkUp) ==
    /\ inflight[s].kind = "servicesPostOperation"
    /\ LET r == inflight[s]
           idx == IndexOf(services, r.id)
           audit == sendAudit(auditEnabled, sinkUp)
       IN IF idx = 0
          THEN /\ resp' = Response("servicesPostOperation", StatusOf(Error, 201), <<>>,
                                   [NoObs EXCEPT !.found = FALSE])
               /\ UNCHANGED services
          ELSE /\ services' = [services EXCEPT
                      ![idx].operations = @ \o r.pushed,
                      ![idx].v = IF r.pushed = <<>> THEN @ ELSE @ + 1]
               /\ resp' = Response("servicesPostOperation", StatusOf(audit, 201), <<>>,
                                   [NoObs EXCEPT !.auditFailed = audit.cls # "none"])
    /\ inflight' = [inflight EXCEPT ![s] = Idle]
    /\ UNCHANGED <<roles, nextSvcId, nextOpId, nextRoleId, svcDeleted, cap>>

\* the inner loop of PUT: the first operation with the incoming _id is renamed
RECURSIVE renameOne(_, _, _)
renameOne(operations, incoming, j) ==
    IF j > Len(operations) THEN operations
    ELSE IF operations[j].id = incoming.id
         THEN [operations EXCEPT ![j].name = incoming.name]
         ELSE renameOne(operations, incoming, j + 1)

\* mutant: only the first incoming operation is applied
renameLoop_firstOnly(operations, incoming, i) ==
    IF i > Len(incoming) THEN operations
    ELSE renameOne(operations, incoming[1], 1)

\* the outer loop of PUT: one pass per incoming operation
RECURSIVE renameLoop(_, _, _)
renameLoop(operations, incoming, i) ==
    IF i > Len(incoming) THEN operations
    ELSE renameLoop(renameOne(operations, incoming[i], 1), incoming, i + 1)

\* PUT /api/v1/services/{id}, up to the save: findById, then the changes on
\* the loaded document.  Kept for the save: the version key read and the
\* paths that were modified, with their new values.
ServicesPut(s, serviceId, srvcData) ==
    /\ inflight[s].kind = "idle"
    /\ LET found == findById(services, serviceId)
       IN IF found = <<>>
          THEN /\ resp' = Response("servicesPut", StatusOf(RouteHandlingError(404), 201),
                                   <<>>, [NoObs EXCEPT !.found = FALSE])
               /\ UNCHANGED inflight
          ELSE LET srvc == found[1]
                   renamed == renameLoop(srvc.operations, srvcData.operations, 1)
               IN /\ inflight' = [inflight EXCEPT ![s] =
                         [kind |-> "servicesPut", id |-> serviceId, v |-> srvc.v,
                          name |-> srvcData.name,
                          setOps |-> {<<j, renamed[j].name>> : j \in
                                         {k \in DOMAIN renamed :
                                             renamed[k].name # srvc.operations[k].name}}]]
                  /\ UNCHANGED resp
    /\ UNCHANGED <<services, roles, nextSvcId, nextOpId, nextRoleId, svcDeleted, cap>>

\* mutant: the save upserts, so a document that is gone is stored again
ServicesPutSave_upserts(s, auditEnabled, sinkUp) ==
    /\ inflight[s].kind = "servicesPut"
    /\ LET r == inflight[s]
           idx == IndexOf(services, r.id)
           audit == sendAudit(auditEnabled, sinkUp)
       IN /\ services' =
                IF idx = 0
                THEN Append(services, [id |-> r.id, name |-> r.name,
                                       operations |-> <<>>, v |-> r.v])
                ELSE [services EXCEPT ![idx].name = r.name]
          /\ resp' = Response("servicesPut", StatusOf(audit, 201), <<>>,
                              [NoObs EXCEPT !.found = (idx # 0),
                                            !.auditFailed = audit.cls # "none"])
    /\ inflight' = [inflight EXCEPT ![s] = Idle]
    /\ UNCHANGED <<roles, nextSvcId, nextOpId, nextRoleId, svcDeleted, cap>>

\* ... its srvc.save(): the modified paths are $set on the stored document.
\* A $set of operations.<j>.name is conditional on the version key read, so
\* it fails after a concurrent push; every save fails when the document is
\* gone.  Then sendAudit and the response.
ServicesPutSave(s, auditEnabled, sinkUp) ==
    /\ inflight[s].kind = "servicesPut"
    /\ LET r == inflight[s]
           idx == IndexOf(services, r.id)
           audit == sendAudit(auditEnabled, sinkUp)
       IN IF idx = 0 \/ (r.setOps # {} /\ services[idx].v # r.v)
          THEN /\ resp' = Response("servicesPut", StatusOf(Error, 201), <<>>,
                                   [NoObs EXCEPT !.found = (idx # 0)])
               /\ UNCHANGED services
          ELSE /\ services' = [services EXCEPT
                      ![idx].name = r.name,
                      ![idx].operations =
                          [j \in DOMAIN @ |->
                              IF \E set \in r.setOps : set[1] = j
                              THEN [@[j] EXCEPT !.name =
                                       (CHOOSE set \in r.setOps : set[1] = j)[2]]
                              ELSE @[j]]]
               /\ resp' = Response("servicesPut", StatusOf(audit, 201), <<>>,
                                   [NoObs EXCEPT !.auditFailed = audit.cls # "none"])
    /\ inflight' = [inflight EXCEPT ![s] = Idle]
    /\ UNCHANGED <<roles, nextSvcId, nextOpId, nextRoleId, svcDeleted, cap>>

\* mutant: a delete that cascades, taking the operations of the deleted
\* service out of every role
ServicesDelete_cascading(serviceId, auditEnabled, sinkUp) ==
    LET audit == sendAudit(auditEnabled, sinkUp)
        existed == IndexOf(services, serviceId) # 0
        gone == AllOpIds(services) \ AllOpIds(deleteOne(services, serviceId))
    IN /\ services' = deleteOne(services, serviceId)
       /\ roles' = [i \in DOMAIN roles |->
                       [roles[i] EXCEPT !.serviceOpIds =
                           SelectSeq(@, LAMBDA opId : opId \notin gone)]]
       /\ svcDeleted' = (svcDeleted \/ existed)
       /\ inflight' = IF existed THEN MarkRaced(inflight) ELSE inflight
       /\ resp' = Response("servicesDelete", StatusOf(audit, 200), <<>>,
                           [NoObs EXCEPT !.found = existed,
                                         !.auditFailed = audit.cls # "none"])
       /\ UNCHANGED <<nextSvcId, nextOpId, nextRoleId, cap>>

\* DELETE /api/v1/services/{id}
ServicesDelete(serviceId, auditEnabled, sinkUp) ==
    LET audit == sendAudit(auditEnabled, sinkUp)
        existed == IndexOf(services, serviceId) # 0
    IN /\ services' = deleteOne(services, serviceId)
       /\ svcDeleted' = (svcDeleted \/ existed)
       /\ inflight' = IF existed THEN MarkRaced(inflight) ELSE inflight
       /\ resp' = Response("servicesDelete", StatusOf(audit, 200), <<>>,
                           [NoObs EXCEPT !.found = existed,
                                         !.auditFailed = audit.cls # "none"])
       /\ UNCHANGED <<roles, nextSvcId, nextOpId, nextRoleId, cap>>

----------------------------------------------------------------------------
(* /api/v1/roles *)

\* messages of the errors thrown by POST /api/v1/roles
NameMessage == "name length"
RefsMessage == "Service Operation ID validation failed"

\* mutant: the references are checked first
RolesPostChecks_refsFirst(newRole, svcs) ==
    IF ~validateServiceOps(newRole.serviceOpIds, svcs)
    THEN [thrown |-> Error, message |-> RefsMessage, scanned |-> TRUE]
    ELSE IF validateRole(newRole).error
         THEN [thrown |-> Error, message |-> NameMessage, scanned |-> TRUE]
         ELSE [thrown |-> NoError, message |-> "", scanned |-> TRUE]

\* the checks of POST /api/v1/roles, in the order of the handler: what is
\* thrown, its message, and whether validateServiceOps (the find({}) on the
\* services collection) was called
RolesPostChecks(newRole, svcs) ==
    IF validateRole(newRole).error
    THEN [thrown |-> Error, message |-> NameMessage, scanned |-> FALSE]
    ELSE IF validateServiceOps(newRole.serviceOpIds, svcs)
         THEN [thrown |-> NoError, message |-> "", scanned |-> TRUE]
         ELSE [thrown |-> Error, message |-> RefsMessage, scanned |-> TRUE]

\* mutant: the failure is answered and the handler goes on to its save
RolesPost_answersAndGoesOn(s, newRole) ==
    /\ inflight[s].kind = "idle"
    /\ LET error == validateRole(newRole).error
           isValid == validateServiceOps(newRole.serviceOpIds, services)
           refsKnown == AllKnown(newRole.serviceOpIds, services)
       IN /\ nextRoleId + PendingRolePosts <= cap.roles
          /\ resp' = IF error \/ ~isValid
                     THEN Response("rolesPost", StatusOf(Error, 201), <<>>,
                                   [NoObs EXCEPT !.nameOk = ~error,
                                                 !.refsKnown = refsKnown])
                     ELSE resp
          /\ inflight' = [inflight EXCEPT ![s] =
                 [kind |-> "rolesPost", newRole |-> newRole,
                  refsKnown |-> refsKnown, raced |-> FALSE]]
    /\ UNCHANGED <<services, roles, nextSvcId, nextOpId, nextRoleId, svcDeleted, cap>>

\* POST /api/v1/roles, up to the save: validateRole on the body, then
\* validateServiceOps over the services read by its find({})
RolesPost(s, newRole) ==
    /\ inflight[s].kind = "idle"
    /\ LET error == validateRole(newRole).error
           checks == RolesPostChecks(newRole, services)
           refsKnown == AllKnown(newRole.serviceOpIds, services)
       IN IF checks.thrown.cls # "none"
          THEN /\ resp' = Response("rolesPost", StatusOf(checks.thrown, 201), <<>>,
                                   [NoObs EXCEPT !.nameOk = ~error,
                                                 !.refsKnown = refsKnown])
               /\ UNCHANGED inflight
          ELSE /\ nextRoleId + PendingRolePosts <= cap.roles
               /\ inflight' = [inflight EXCEPT ![s] =
                      [kind |-> "rolesPost", newRole |-> newRole,
                       refsKnown |-> refsKnown, raced |-> FALSE]]
               /\ UNCHANGED resp
    /\ UNCHANGED <<services, roles, nextSvcId, nextOpId, nextRoleId, svcDeleted, cap>>

\* ... its role.save(), then sendAudit and the response
RolesPostSave(s, auditEnabled, sinkUp) ==
    /\ inflight[s].kind = "rolesPost"
    /\ LET r == inflight[s]
           role == [id |-> nextRoleId, name |-> r.newRole.name,
                    serviceOpIds |-> r.newRole.serviceOpIds]
           audit == sendAudit(auditEnabled, sinkUp)
       IN /\ roles' = Append(roles, role)
          /\ nextRoleId' = nextRoleId + 1
          /\ resp' = Response("rolesPost", StatusOf(audit, 201), <<>>,
                              [NoObs EXCEPT
                                  !.refsKnown = r.refsKnown,
                                  !.raced = r.raced,
                                  !.dangling = ~AllKnown(role.serviceOpIds, services),
                                  !.auditFailed = audit.cls # "none"])
    /\ inflight' = [MarkDirty(inflight) EXCEPT ![s] = Idle]
    /\ UNCHANGED <<services, nextSvcId, nextOpId, svcDeleted, cap>>

\* mutant: the filter is ignored and every document is updated
findOneAndUpdate_all(coll, id, newRole) ==
    [i \in DOMAIN coll |->
        [coll[i] EXCEPT !.name = newRole.name,
                        !.serviceOpIds = newRole.serviceOpIds]]

\* Role.findOneAndUpdate({_id}, newRole, {new: true}): the collection
\* afterwards (unchanged when no document matches)
findOneAndUpdate(coll, id, newRole) ==
    [i \in DOMAIN coll |->
        IF coll[i].id = id
        THEN [coll[i] EXCEPT !.name = newRole.name,
                             !.serviceOpIds = newRole.serviceOpIds]
        ELSE coll[i]]

\* PUT /api/v1/roles/{id}, up to the update: validateServiceOps over the
\* services read by its find({})
RolesPut(s, roleId, newRole) ==
    /\ inflight[s].kind = "idle"
    /\ LET isValid == validateServiceOps(newRole.serviceOpIds, services)
           refsKnown == AllKnown(newRole.serviceOpIds, services)
       IN IF ~isValid
          THEN /\ resp' = Response("rolesPut", StatusOf(RouteHandlingError(400), 200),
                                   <<>>,
                                   [NoObs EXCEPT !.refsKnown = refsKnown,
                                                 !.found = IndexOf(roles, roleId) # 0])
               /\ UNCHANGED inflight
          ELSE /\ inflight' = [inflight EXCEPT ![s] =
                      [kind |-> "rolesPut", id |-> roleId, newRole |-> newRole,
                       refsKnown |-> refsKnown, raced |-> FALSE]]
               /\ UNCHANGED resp
    /\ UNCHANGED <<services, roles, nextSvcId, nextOpId, nextRoleId, svcDeleted, cap>>

\* ... its Role.findOneAndUpdate, then sendAudit and the response (the
\* updated role, or null when no role has this _id)
RolesPutUpdate(s, auditEnabled, sinkUp) ==
    /\ inflight[s].kind = "rolesPut"
    /\ LET r == inflight[s]
           audit == sendAudit(auditEnabled, sinkUp)
           found == IndexOf(roles, r.id) # 0
       IN /\ roles' = findOneAndUpdate(roles, r.id, r.newRole)
          /\ resp' = Response("rolesPut", StatusOf(audit, 200), <<>>,
                              [NoObs EXCEPT
                                  !.refsKnown = r.refsKnown,
                                  !.found = found,
                                  !.raced = r.raced,
                                  !.dangling = found /\ ~AllKnown(r.newRole.serviceOpIds,
                                                                  services),
                                  !.auditFailed = audit.cls # "none"])
          /\ inflight' = [(IF roles' # roles THEN MarkDirty(inflight) ELSE inflight)
                             EXCEPT ![s] = Idle]
    /\ UNCHANGED <<services, nextSvcId, nextOpId, nextRoleId, svcDeleted, cap>>

\* DELETE /api/v1/roles/{id}
RolesDelete(roleId, auditEnabled, sinkUp) ==
    LET audit == sendAudit(auditEnabled, sinkUp)
    IN /\ roles' = deleteOne(roles, roleId)
       /\ inflight' = IF roles' # roles THEN MarkDirty(inflight) ELSE inflight
       /\ resp' = Response("rolesDelete", StatusOf(audit, 201), <<>>,
                           [NoObs EXCEPT !.found = (roles' # roles),
                                         !.auditFailed = audit.cls # "none"])
       /\ UNCHANGED <<services, nextSvcId, nextOpId, nextRoleId, svcDeleted, cap>>

----------------------------------------------------------------------------
(* /api/v1/rolexpand *)

\* mutant: the new role's list put in front of the accumulated one
concat_swapped(srvcOpIds, serviceOpIds) == serviceOpIds \o srvcOpIds

\* srvcOpIds.concat(role.serviceOpIds)
concat(srvcOpIds, serviceOpIds) == srvcOpIds \o serviceOpIds

\* one pass of the loop of POST /api/v1/rolexpand, on the request state
\* r = [roleIds, i, srvcOpIds, dirty, seen]: Role.findById(roleIds[i]), then
\* the concat; reading serviceOpIds of null throws.  After the last pass the
\* response.  (dirty and seen are history: whether, and to what, the roles
\* collection changed since the request started.)
ExpandPass(s, r) ==
    LET role == findById(roles, r.roleIds[r.i])
    IN IF role = <<>>
       THEN /\ resp' = Response("rolexpand", StatusOf(Error, 201), <<>>,
                                [NoObs EXCEPT !.found = FALSE, !.dirty = r.dirty])
            /\ inflight' = [inflight EXCEPT ![s] = Idle]
       ELSE LET srvcOpIds == concat(r.srvcOpIds, role[1].serviceOpIds)
            IN IF r.i = Len(r.roleIds)
               THEN /\ resp' = Response("rolexpand", 201, srvcOpIds,
                                        [NoObs EXCEPT !.dirty = r.dirty])
                    /\ inflight' = [inflight EXCEPT ![s] = Idle]
               ELSE /\ inflight' = [inflight EXCEPT ![s] =
                           [kind |-> "rolexpand", roleIds |-> r.roleIds, i |-> r.i + 1,
                            srvcOpIds |-> srvcOpIds, dirty |-> r.dirty,
                            seen |-> r.seen]]
                    /\ UNCHANGED resp

\* POST /api/v1/rolexpand, up to its second lookup
RolexpandPost(s, roleIds) ==
    /\ inflight[s].kind = "idle"
    /\ IF Len(roleIds) = 0
       THEN /\ resp' = Response("rolexpand", 201, <<>>, NoObs)
            /\ UNCHANGED inflight
       ELSE ExpandPass(s, [roleIds |-> roleIds, i |-> 1, srvcOpIds |-> <<>>,
                           dirty |-> FALSE, seen |-> {roles}])
    /\ UNCHANGED <<services, roles, nextSvcId, nextOpId, nextRoleId, svcDeleted, cap>>

\* ... each later lookup
RolexpandNext(s) ==
    /\ inflight[s].kind = "rolexpand"
    /\ ExpandPass(s, inflight[s])
    /\ UNCHANGED <<services, roles, nextSvcId, nextOpId, nextRoleId, svcDeleted, cap>>

----------------------------------------------------------------------------
(* Requests: the bodies a client can send, over given sets of names *)

AuditCases == {<<FALSE, TRUE>>, <<TRUE, TRUE>>, <<TRUE, FALSE>>}

\* bodies over the names `names`, with lists of at most n entries
ServiceBodies(names, n) == [name : names, operations : SeqsUpTo(OpNames, n)]
OperationBodies(n) == [id : KnownSvcIds, operations : SeqsUpTo(OpNames, n)]
ServiceUpdates(names, n) ==
    [name : names, operations : SeqsUpTo([id : KnownOpIds, name : OpNames], n)]
RoleBodies(names, n) == [name : names, serviceOpIds : SeqsUpTo(KnownOpIds, n)]
RoleIdLists(n) == SeqsUpTo(KnownRoleIds, n)

\* one valid name, where the names do not matter
OneSvcName == {SERVICENAME_MIN_LENGTH}
OneRoleName == {ROLENAME_MIN_LENGTH}

----------------------------------------------------------------------------
(* The whole service: every route, from the empty store *)

Cap == [svcs |-> 2, ops |-> 2, roles |-> 2]

Init ==
    /\ cap = Cap
    /\ services = <<>>
    /\ roles = <<>>
    /\ nextSvcId = 1
    /\ nextOpId = 1
    /\ nextRoleId = 1
    /\ inflight = [s \in 1..MaxSlots |-> Idle]
    /\ resp = NoResp
    /\ svcDeleted = FALSE

Next ==
    \/ \E b \in ServiceBodies(SvcNameLens, MaxList), a \in AuditCases : ServicesPost(b, a[1], a[2])
    \/ \E s \in Slots, b \in OperationBodies(MaxList) : ServicesPostOperation(s, b)
    \/ \E s \in Slots, a \in AuditCases : ServicesPostOperationSave(s, a[1], a[2])
    \/ \E s \in Slots, id \in KnownSvcIds, b \in ServiceUpdates(SvcNameLens, MaxList) :
          ServicesPut(s, id, b)
    \/ \E s \in Slots, a \in AuditCases : ServicesPutSave(s, a[1], a[2])
    \/ \E id \in KnownSvcIds, a \in AuditCases : ServicesDelete(id, a[1], a[2])
    \/ \E s \in Slots, b \in RoleBodies(RoleNameLens, MaxList) : RolesPost(s, b)
    \/ \E s \in Slots, a \in AuditCases : RolesPostSave(s, a[1], a[2])
    \/ \E s \in Slots, id \in KnownRoleIds, b \in RoleBodies(RoleNameLens, MaxList) :
          RolesPut(s, id, b)
    \/ \E s \in Slots, a \in AuditCases : RolesPutUpdate(s, a[1], a[2])
    \/ \E id \in KnownRoleIds, a \in AuditCases : RolesDelete(id, a[1], a[2])
    \/ \E s \in Slots, ids \in RoleIdLists(MaxList) : RolexpandPost(s, ids)
    \/ \E s \in Slots : RolexpandNext(s)

Spec == Init /\ [][Next]_vars

----------------------------------------------------------------------------
(* Stores the service reaches by registering services, from which the      *)
(* specifications below start                                              *)

Service(id, name, operations) ==
    [id |-> id, name |-> name, operations |-> operations, v |-> 0]
Operation(id, name) == [id |-> id, name |-> name]

\* after POST /api/v1/services {name, operations: [a]}
OneServiceOneOp == <<Service(1, SERVICENAME_MIN_LENGTH, <<Operation(1, "a")>>)>>
\* after POST /api/v1/services {name, operations: [a, b]}
OneServiceTwoOps ==
    <<Service(1, SERVICENAME_MIN_LENGTH, <<Operation(1, "a"), Operation(2, "b")>>)>>

\* the state after the services svcs with nOps operations were registered
Registered(svcs, nOps, nSlots, caps) ==
    /\ cap = caps
    /\ services = svcs
    /\ roles = <<>>
    /\ nextSvcId = Len(svcs) + 1
    /\ nextOpId = nOps + 1
    /\ nextRoleId = 1
    /\ inflight = [s \in 1..nSlots |-> Idle]
    /\ resp = Response("servicesPost", 201, <<>>, NoObs)
    /\ svcDeleted = FALSE

----------------------------------------------------------------------------
(* validateServiceOps as a function: applied to every list of identifiers  *)
(* over every small services collection                                    *)

\* lists of distinct operation identifiers in the order they were issued
IssuedOps(ids) ==
    {ops \in SeqsUpTo(ids, MaxOps) : \A i, j \in DOMAIN ops : i < j => ops[i] < ops[j]}

\* collections of up to MaxSvcs services that share no operation
SvcCollections ==
    {<<>>} \cup
    UNION {{[i \in 1..k |-> Service(i, SERVICENAME_MIN_LENGTH,
                                    [j \in DOMAIN ops[i] |-> Operation(ops[i][j], "a")])] :
               ops \in {o \in [1..k -> IssuedOps(1..MaxOps)] :
                           \A i, j \in 1..k :
                               i # j => \A m \in DOMAIN o[i], n \in DOMAIN o[j] :
                                           o[i][m] # o[j][n]}} :
           k \in 1..MaxSvcs}

InitValidate ==
    /\ cap = [svcs |-> MaxSvcs, ops |-> MaxOps, roles |-> 0]
    /\ services \in SvcCollections
    /\ roles = <<>>
    /\ nextSvcId = MaxSvcs + 1
    /\ nextOpId = MaxOps + 1
    /\ nextRoleId = 1
    /\ inflight = [s \in 1..1 |-> Idle]
    /\ resp = NoResp
    /\ svcDeleted = FALSE

\* validateServiceOps(serviceOpIds) over the stored services; kept: the
\* list and the verdict
ValidateCall(serviceOpIds) ==
    /\ resp' = Response("validateServiceOps", 0,
                        <<[serviceOpIds |-> serviceOpIds,
                           isValid |-> validateServiceOps(serviceOpIds, services)]>>,
                        NoObs)
    /\ UNCHANGED <<services, roles, nextSvcId, nextOpId, nextRoleId, inflight, svcDeleted, cap>>

NextValidate == \E ids \in SeqsUpTo(0..MaxOps, MaxList + 1) : ValidateCall(ids)

SpecValidate == InitValidate /\ [][NextValidate]_vars

\* C1: validateServiceOps answers true exactly when every identifier of the
\* list is the identifier of an operation of a registered service: true
\* for the empty list, false when an identifier is unknown, at whatever
\* position and with whatever duplicates.
C1_ValidateIffAllRegistered ==
    resp.op = "validateServiceOps" =>
        LET call == resp.body[1]
            registered == UNION {{services[i].operations[j].id :
                                     j \in DOMAIN services[i].operations} :
                                 i \in DOMAIN services}
        IN /\ call.isValid = (\A i \in DOMAIN call.serviceOpIds :
                                 call.serviceOpIds[i] \in registered)
           /\ call.serviceOpIds = <<>> => call.isValid

\* a list refused for the unknown identifier at its head, the rest being
\* one registered identifier twice, over two services
C1_Witness ==
    /\ resp.op = "validateServiceOps"
    /\ Len(services) = 2
    /\ LET call == resp.body[1]
       IN /\ ~call.isValid
          /\ Len(call.serviceOpIds) = 3
          /\ call.serviceOpIds[1] \notin AllOpIds(services)
          /\ call.serviceOpIds[2] \in AllOpIds(services)
          /\ call.serviceOpIds[3] = call.serviceOpIds[2]

----------------------------------------------------------------------------
(* Role requests, one at a time, against a registered service that may be  *)
(* deleted at any moment                                                   *)

RolesCap == [svcs |-> 1, ops |-> 1, roles |-> 2]

InitRoles == Registered(OneServiceOneOp, 1, 1, RolesCap)

NextRoles ==
    \/ \E s \in Slots, b \in RoleBodies(RoleNameLens, MaxList) : RolesPost(s, b)
    \/ \E s \in Slots, a \in AuditCases : RolesPostSave(s, a[1], a[2])
    \/ \E s \in Slots, id \in KnownRoleIds, b \in RoleBodies(OneRoleName, MaxList) :
          RolesPut(s, id, b)
    \/ \E s \in Slots, a \in AuditCases : RolesPutUpdate(s, a[1], a[2])
    \/ \E id \in KnownRoleIds, a \in AuditCases : RolesDelete(id, a[1], a[2])
    \/ \E id \in KnownSvcIds, a \in AuditCases : ServicesDelete(id, a[1], a[2])

SpecRoles == InitRoles /\ [][NextRoles]_vars

RoleNameOk(name) == name >= 4 /\ name <= 40

\* C2: a role create with a valid name whose serviceOpIds hold an identifier
\* of no registered operation is answered 400 and leaves the roles
\* collection as it was; a role is saved only by a request all of whose
\* identifiers were registered when it was validated.
C2_CreateRejectsUnknownRefs ==
    [][/\ \A s \in Slots, b \in RoleBodies(RoleNameLens, MaxList) :
             (RolesPost(s, b) /\ RoleNameOk(b.name)
                 /\ ~AllKnown(b.serviceOpIds, services))
             => (resp'.op = "rolesPost" /\ resp'.status = 400 /\ roles' = roles)
       /\ \A s \in Slots :
             (inflight[s].kind = "rolesPost" /\ roles' # roles /\ inflight'[s] = Idle)
             => inflight[s].refsKnown]_vars

\* C3: a role update whose serviceOpIds hold an identifier of no registered
\* operation is answered 400 and leaves every stored role as it was; an
\* update is applied only by a request all of whose identifiers were
\* registered when it was validated.
C3_UpdateRejectsUnknownRefs ==
    [][/\ \A s \in Slots, id \in KnownRoleIds, b \in RoleBodies(OneRoleName, MaxList) :
             (~AllKnown(b.serviceOpIds, services) /\ RolesPut(s, id, b))
             => (resp'.op = "rolesPut" /\ resp'.status = 400 /\ roles' = roles
                 /\ inflight' = inflight)
       /\ \A s \in Slots :
             inflight'[s].kind = "rolesPut" => inflight'[s].refsKnown]_vars

\* an update of a stored role that holds operations was refused for an
\* unknown identifier
C3_Witness ==
    /\ resp.op = "rolesPut" /\ resp.status = 400
    /\ ~resp.obs.refsKnown /\ resp.obs.found
    /\ \E i \in DOMAIN roles : roles[i].serviceOpIds # <<>>

\* C5: a role is written with an identifier that no registered operation
\* has only when a service was deleted between the validation of the
\* request, which found every identifier registered, and its write.
C5_DanglingOnlyByRace ==
    (resp.op \in {"rolesPost", "rolesPut"} /\ resp.obs.dangling)
    => (resp.obs.raced /\ resp.obs.refsKnown)

\* the interleaving: validation passed, a service delete completed, and the
\* role was then saved with an identifier of no registered operation
C5_Witness ==
    /\ resp.op = "rolesPost" /\ resp.status = 201
    /\ resp.obs.refsKnown /\ resp.obs.raced /\ resp.obs.dangling
    /\ svcDeleted
    /\ roles # <<>>
    /\ \E i \in DOMAIN roles[Len(roles)].serviceOpIds :
          roles[Len(roles)].serviceOpIds[i] \notin AllOpIds(services)

\* C9: a role create with a name shorter than 4 or longer than 40 is
\* answered 400, whatever its serviceOpIds, and saves no role.
C9_CreateRejectsBadName ==
    [][\A s \in Slots, b \in RoleBodies(RoleNameLens, MaxList) :
          (RolesPost(s, b) /\ ~RoleNameOk(b.name))
          => (resp'.op = "rolesPost" /\ resp'.status = 400 /\ roles' = roles
              /\ inflight' = inflight)]_vars

\* C24: a role create with a name shorter than 4 or longer than 40 fails on
\* the name check: the error thrown has the message of the name check, also
\* when an identifier of the request is unregistered, validateServiceOps is
\* not called, and nothing is stored or left in flight.
C24_NameCheckedFirst ==
    [][\A s \in Slots, b \in RoleBodies(RoleNameLens, MaxList) :
          (RolesPost(s, b) /\ ~RoleNameOk(b.name))
          => LET checks == RolesPostChecks(b, services)
             IN /\ checks.thrown.cls # "none"
                /\ checks.message = NameMessage
                /\ ~checks.scanned
                /\ resp'.op = "rolesPost"
                /\ resp'.status = StatusOf(checks.thrown, 201)
                /\ roles' = roles /\ inflight' = inflight]_vars

\* a role create with a bad name and an unregistered identifier was rejected
C24_Witness ==
    /\ resp.op = "rolesPost"
    /\ ~resp.obs.nameOk /\ ~resp.obs.refsKnown
    /\ resp.status # 201

\* C25: every role written by a create or an update was validated as a
\* whole: in the one state of the services collection read by the
\* validation of its request, all its identifiers were registered.
C25_ValidatedAgainstOneState ==
    (/\ resp.op \in {"rolesPost", "rolesPut"}
     /\ resp.status \in {200, 201, 424}
     /\ resp.obs.found)
    => resp.obs.refsKnown

\* a role was updated with two identifiers that were registered when the
\* request was validated; the service was deleted before the write
C25_Witness ==
    /\ resp.op = "rolesPut" /\ resp.status = 200
    /\ resp.obs.found /\ resp.obs.refsKnown /\ resp.obs.raced
    /\ \E i \in DOMAIN roles : Len(roles[i].serviceOpIds) = 2

\* every role but the one with this identifier is as before
OtherRolesUnchanged(id) ==
    /\ Len(roles') = Len(roles)
    /\ \A i \in DOMAIN roles :
          /\ roles'[i].id = roles[i].id
          /\ roles[i].id # id => roles'[i] = roles[i]

\* C26: after an update of a stored role answered 200, the identifier of
\* the role resolves to a role with the name and the serviceOpIds of the
\* request; as many roles are stored as before, and every other role and
\* every service is unchanged.
C26_UpdateKeepsIdentifier ==
    [][\A s \in Slots, a \in AuditCases :
          (/\ RolesPutUpdate(s, a[1], a[2])
           /\ resp'.status = 200
           /\ findById(roles, inflight[s].id) # <<>>)
          => LET id == inflight[s].id
                 role == findById(roles', id)
             IN /\ role # <<>>
                /\ role[1].id = id
                /\ role[1].name = inflight[s].newRole.name
                /\ role[1].serviceOpIds = inflight[s].newRole.serviceOpIds
                /\ OtherRolesUnchanged(id)
                /\ services' = services]_vars

\* one of two stored roles was updated: it has the new name and the other
\* one the name it was created with
C26_Witness ==
    /\ resp.op = "rolesPut" /\ resp.status = 200 /\ resp.obs.found
    /\ Len(roles) = 2
    /\ roles[1].name # roles[2].name
    /\ roles[1].id # roles[2].id

\* C27: a role delete removes the role with the identifier of the request
\* and nothing else: afterwards the identifier resolves to no role, every
\* other role is stored as before, in the same order, and every service,
\* with its operations, is unchanged.
C27_DeleteRemovesOneRole ==
    [][\A id \in KnownRoleIds, a \in AuditCases :
          RolesDelete(id, a[1], a[2])
          => LET k == IndexOf(roles, id)
             IN /\ findById(roles', id) = <<>>
                /\ roles' = IF k = 0 THEN roles
                            ELSE SubSeq(roles, 1, k - 1) \o SubSeq(roles, k + 1, Len(roles))
                /\ services' = services]_vars

\* the first of two stored roles was deleted; the second one and the
\* service are still stored
C27_Witness ==
    /\ resp.op = "rolesDelete" /\ resp.obs.found
    /\ Len(roles) = 1 /\ roles[1].id = 2
    /\ services # <<>>

----------------------------------------------------------------------------
(* Service and role requests interleaved, without service delete           *)

IntegrityCap == [svcs |-> 1, ops |-> 2, roles |-> 1]

InitIntegrity ==
    /\ cap = IntegrityCap
    /\ services = <<>>
    /\ roles = <<>>
    /\ nextSvcId = 1
    /\ nextOpId = 1
    /\ nextRoleId = 1
    /\ inflight = [s \in 1..MaxSlots |-> Idle]
    /\ resp = NoResp
    /\ svcDeleted = FALSE

NextIntegrity ==
    \/ \E b \in ServiceBodies(OneSvcName, 1), a \in AuditCases : ServicesPost(b, a[1], a[2])
    \/ \E s \in Slots, b \in OperationBodies(1) : ServicesPostOperation(s, b)
    \/ \E s \in Slots, a \in AuditCases : ServicesPostOperationSave(s, a[1], a[2])
    \/ \E s \in Slots, id \in KnownSvcIds, b \in ServiceUpdates(OneSvcName, 1) :
          ServicesPut(s, id, b)
    \/ \E s \in Slots, a \in AuditCases : ServicesPutSave(s, a[1], a[2])
    \/ \E s \in Slots, b \in RoleBodies(OneRoleName, 1) : RolesPost(s, b)
    \/ \E s \in Slots, a \in AuditCases : RolesPostSave(s, a[1], a[2])
    \/ \E s \in Slots, id \in KnownRoleIds, b \in RoleBodies(OneRoleName, 1) :
          RolesPut(s, id, b)
    \/ \E s \in Slots, a \in AuditCases : RolesPutUpdate(s, a[1], a[2])
    \/ \E id \in KnownRoleIds, a \in AuditCases : RolesDelete(id, a[1], a[2])

SpecIntegrity == InitIntegrity /\ [][NextIntegrity]_vars

\* C4: as long as no service is deleted, every operation identifier stored
\* in a role is the identifier of an operation of a registered service,
\* however service create, add-operations, service update, role create,
\* role update and role delete requests interleave.
C4_RolesReferToRegisteredOps ==
    ~svcDeleted =>
        \A i \in DOMAIN roles : \A j \in DOMAIN roles[i].serviceOpIds :
            \E k \in DOMAIN services : \E m \in DOMAIN services[k].operations :
                services[k].operations[m].id = roles[i].serviceOpIds[j]

\* a role was updated to refer to an operation that add-operations appended
C4_Witness ==
    /\ ~svcDeleted
    /\ resp.op = "rolesPut" /\ resp.status = 200 /\ resp.obs.found
    /\ \E k \in DOMAIN services :
          /\ services[k].v > 0
          /\ \E i \in DOMAIN roles :
                roles[i].serviceOpIds =
                    <<services[k].operations[Len(services[k].operations)].id>>

----------------------------------------------------------------------------
(* Role expansion while roles are written and the service is deleted       *)

ExpandCap == [svcs |-> 1, ops |-> 2, roles |-> 2]

InitExpand == Registered(OneServiceTwoOps, 2, 1, ExpandCap)

NextExpand ==
    \/ \E s \in Slots, b \in RoleBodies(OneRoleName, MaxList) : RolesPost(s, b)
    \/ \E s \in Slots, a \in AuditCases : RolesPostSave(s, a[1], a[2])
    \/ \E s \in Slots, id \in KnownRoleIds, b \in RoleBodies(OneRoleName, MaxList) :
          RolesPut(s, id, b)
    \/ \E s \in Slots, a \in AuditCases : RolesPutUpdate(s, a[1], a[2])
    \/ \E id \in KnownRoleIds, a \in AuditCases : RolesDelete(id, a[1], a[2])
    \/ \E id \in KnownSvcIds, a \in AuditCases : ServicesDelete(id, a[1], a[2])
    \/ \E s \in Slots, ids \in RoleIdLists(MaxList) : RolexpandPost(s, ids)
    \/ \E s \in Slots : RolexpandNext(s)

SpecExpand == InitExpand /\ [][NextExpand]_vars

\* the lists of the roles with the identifiers roleIds, one after the other
RECURSIVE ListsInOrder(_, _)
ListsInOrder(roleIds, coll) ==
    IF roleIds = <<>> THEN <<>>
    ELSE coll[IndexOf(coll, Head(roleIds))].serviceOpIds
             \o ListsInOrder(Tail(roleIds), coll)

Resolves(roleIds, coll) == \A i \in DOMAIN roleIds : IndexOf(coll, roleIds[i]) # 0

\* C6: an expansion all of whose roleIds resolve to stored roles (which
\* are not written meanwhile) is answered 201 with the stored lists of
\* these roles one after the other, in the order of roleIds, each in its
\* stored order and with its duplicates; the expansion of no roleIds is the
\* empty list.
C6_ExpansionIsConcatenation ==
    [][/\ \A s \in Slots, ids \in RoleIdLists(MaxList) :
             (RolexpandPost(s, ids) /\ inflight'[s] = Idle /\ Resolves(ids, roles))
             => /\ resp'.op = "rolexpand" /\ resp'.status = 201
                /\ resp'.body = ListsInOrder(ids, roles)
                /\ ids = <<>> => resp'.body = <<>>
       /\ \A s \in Slots :
             (RolexpandNext(s) /\ inflight'[s] = Idle /\ ~inflight[s].dirty
                 /\ Resolves(inflight[s].roleIds, roles))
             => /\ resp'.op = "rolexpand" /\ resp'.status = 201
                /\ resp'.body = ListsInOrder(inflight[s].roleIds, roles)]_vars

\* the second role, then the first, expanded to four identifiers of which
\* three are the same
C6_Witness ==
    /\ resp.op = "rolexpand" /\ resp.status = 201 /\ ~resp.obs.dirty
    /\ Len(roles) = 2
    /\ roles[1].serviceOpIds = <<2, 2>>
    /\ roles[2].serviceOpIds = <<2, 1>>
    /\ resp.body = <<2, 1, 2, 2>>

\* C7: an expansion that meets a roleId of no stored role, at whatever
\* position, is answered NotFound (404) and returns no list.
C7_ExpansionNotFound ==
    (resp.op = "rolexpand" /\ ~resp.obs.found)
    => (resp.status = 404 /\ resp.body = <<>>)

\* C8: a service delete removes the service with its operations, keeps the
\* other services and changes no role; the expansion of a stored role is
\* answered 201 with the stored list of the role, whether or not its
\* identifiers are still registered.
C8_DeleteLeavesRoles ==
    [][/\ \A id \in KnownSvcIds, a \in AuditCases :
             ServicesDelete(id, a[1], a[2])
             => /\ roles' = roles
                /\ \A k \in DOMAIN services' : services'[k].id # id
                /\ services' = SelectSeq(services, LAMBDA srvc : srvc.id # id)
       /\ \A s \in Slots, id \in KnownRoleIds :
             (RolexpandPost(s, <<id>>) /\ IndexOf(roles, id) # 0)
             => /\ resp'.status = 201
                /\ resp'.body = roles[IndexOf(roles, id)].serviceOpIds]_vars

\* after the delete of the only service, the expansion of a role returned
\* the identifiers of its two operations
C8_Witness ==
    /\ svcDeleted /\ services = <<>>
    /\ resp.op = "rolexpand" /\ resp.status = 201
    /\ resp.body = <<1, 2>>
    /\ \E i \in DOMAIN roles : roles[i].serviceOpIds = <<1, 2>>

----------------------------------------------------------------------------
(* Service create and delete, from the empty store                         *)

ServicesCap == [svcs |-> 2, ops |-> 2, roles |-> 0]

InitServices ==
    /\ cap = ServicesCap
    /\ services = <<>>
    /\ roles = <<>>
    /\ nextSvcId = 1
    /\ nextOpId = 1
    /\ nextRoleId = 1
    /\ inflight = [s \in 1..1 |-> Idle]
    /\ resp = NoResp
    /\ svcDeleted = FALSE

NextServices ==
    \/ \E b \in ServiceBodies(SvcNameLens, MaxList), a \in AuditCases :
          ServicesPost(b, a[1], a[2])
    \/ \E id \in KnownSvcIds, a \in AuditCases : ServicesDelete(id, a[1], a[2])

SpecServices == InitServices /\ [][NextServices]_vars

\* the service was appended to the collection as the request gave it
Persisted(newService) ==
    /\ Len(services') = Len(services) + 1
    /\ SubSeq(services', 1, Len(services)) = services
    /\ LET srvc == services'[Len(services')]
       IN /\ srvc.name = newService.name
          /\ [j \in DOMAIN srvc.operations |-> srvc.operations[j].name]
                 = newService.operations

\* C10 as stated: a service create with a name of length 4..30 is answered
\* 201 and the service is stored, also with no operations; with a shorter
\* or longer name it is answered 400 and nothing is stored.
C10_CreateByNameLength ==
    [][\A b \in ServiceBodies(SvcNameLens, MaxList), a \in AuditCases :
          ServicesPost(b, a[1], a[2])
          => IF b.name >= 4 /\ b.name <= 30
             THEN resp'.status = 201 /\ Persisted(b)
             ELSE resp'.status = 400 /\ services' = services]_vars

\* C10 amended: a service create with a name of length 4..30 stores the
\* service, also with no operations, and is answered 201, or 424 when
\* auditing is enabled and the audit service fails; with a shorter or
\* longer name it is answered 400 and nothing is stored.
C10_CreateByNameLengthOrAudit ==
    [][\A b \in ServiceBodies(SvcNameLens, MaxList), a \in AuditCases :
          ServicesPost(b, a[1], a[2])
          => IF b.name >= 4 /\ b.name <= 30
             THEN /\ Persisted(b)
                  /\ resp'.status = IF a[1] /\ ~a[2] THEN 424 ELSE 201
             ELSE resp'.status = 400 /\ services' = services]_vars

\* a service with a name of 30 characters and no operations was stored and
\* answered 201
C10_Witness ==
    /\ resp.op = "servicesPost" /\ resp.status = 201
    /\ services # <<>>
    /\ services[Len(services)].name = 30
    /\ services[Len(services)].operations = <<>>

----------------------------------------------------------------------------
(* Read by identifier                                                      *)

\* GET /api/v1/services/{id}
ServicesGet(serviceId) ==
    LET srvc == findById(services, serviceId)
    IN /\ resp' = IF srvc = <<>>
                  THEN Response("servicesGet", StatusOf(RouteHandlingError(404), 200),
                                <<>>, [NoObs EXCEPT !.found = FALSE])
                  ELSE Response("servicesGet", 200, srvc, NoObs)
       /\ UNCHANGED <<services, roles, nextSvcId, nextOpId, nextRoleId, inflight,
                      svcDeleted, cap>>

\* GET /api/v1/roles/{id}
RolesGet(roleId) ==
    LET role == findById(roles, roleId)
    IN /\ resp' = IF role = <<>>
                  THEN Response("rolesGet", StatusOf(RouteHandlingError(400), 200),
                                <<>>, [NoObs EXCEPT !.found = FALSE])
                  ELSE Response("rolesGet", 200, role, NoObs)
       /\ UNCHANGED <<services, roles, nextSvcId, nextOpId, nextRoleId, inflight,
                      svcDeleted, cap>>

----------------------------------------------------------------------------
(* The routes on one service: read, add-operations, update and delete, one *)
(* request at a time                                                       *)

ServiceRoutesCap == [svcs |-> 1, ops |-> 2, roles |-> 0]

InitServiceRoutes == Registered(OneServiceOneOp, 1, 1, ServiceRoutesCap)

NextServiceRoutes ==
    \/ \E id \in KnownSvcIds : ServicesGet(id)
    \/ \E s \in Slots, b \in OperationBodies(1) : ServicesPostOperation(s, b)
    \/ \E s \in Slots, a \in AuditCases : ServicesPostOperationSave(s, a[1], a[2])
    \/ \E s \in Slots, id \in KnownSvcIds, b \in ServiceUpdates(SvcNameLens, 1) :
          ServicesPut(s, id, b)
    \/ \E s \in Slots, a \in AuditCases : ServicesPutSave(s, a[1], a[2])
    \/ \E id \in KnownSvcIds, a \in AuditCases : ServicesDelete(id, a[1], a[2])

SpecServiceRoutes == InitServiceRoutes /\ [][NextServiceRoutes]_vars

SvcNameOk(name) == name >= 4 /\ name <= 30

\* C11: a service update with a name shorter than 4 or longer than 30 is
\* answered 400 and changes no service, so that every stored service has a
\* name of length 4..30.
C11_UpdateRejectsBadName ==
    [][/\ \A s \in Slots, id \in KnownSvcIds, b \in ServiceUpdates(SvcNameLens, 1) :
             (~SvcNameOk(b.name) /\ IndexOf(services, id) # 0 /\ ServicesPut(s, id, b))
             => (resp'.op = "servicesPut" /\ resp'.status = 400
                 /\ inflight' = inflight /\ services' = services)
       /\ \A k \in DOMAIN services' : SvcNameOk(services'[k].name)]_vars

\* C13: a read, an add-operations or an update of a service identifier
\* that no stored service has is answered 404 and changes neither the
\* services nor the roles (nor starts a write).
C13_UnknownServiceNotFound ==
    [][/\ \A id \in KnownSvcIds :
             (IndexOf(services, id) = 0 /\ ServicesGet(id))
             => (resp'.op = "servicesGet" /\ resp'.status = 404 /\ resp'.body = <<>>)
       /\ \A s \in Slots, b \in OperationBodies(1) :
             (IndexOf(services, b.id) = 0 /\ ServicesPostOperation(s, b))
             => (resp'.op = "servicesPostOperation" /\ resp'.status = 404
                 /\ inflight' = inflight /\ nextOpId' = nextOpId)
       /\ \A s \in Slots, id \in KnownSvcIds, b \in ServiceUpdates(SvcNameLens, 1) :
             (IndexOf(services, id) = 0 /\ ServicesPut(s, id, b))
             => (resp'.op = "servicesPut" /\ resp'.status = 404
                 /\ inflight' = inflight)
       /\ (resp' # resp /\ resp'.status = 404)
             => (services' = services /\ roles' = roles)]_vars

\* an add-operations request for the identifier of a deleted service was
\* answered 404
C13_Witness ==
    /\ resp.op = "servicesPostOperation" /\ resp.status = 404
    /\ ~resp.obs.found
    /\ svcDeleted /\ services = <<>>
    /\ nextSvcId > 1

----------------------------------------------------------------------------
(* The routes on one role: create, read, update and delete, one request at *)
(* a time, against one registered service                                  *)

RoleRoutesCap == [svcs |-> 1, ops |-> 1, roles |-> 1]

InitRoleRoutes == Registered(OneServiceOneOp, 1, 1, RoleRoutesCap)

NextRoleRoutes ==
    \/ \E s \in Slots, b \in RoleBodies(RoleNameLens, 1) : RolesPost(s, b)
    \/ \E s \in Slots, a \in AuditCases : RolesPostSave(s, a[1], a[2])
    \/ \E id \in KnownRoleIds : RolesGet(id)
    \/ \E s \in Slots, id \in KnownRoleIds, b \in RoleBodies(RoleNameLens, 1) :
          RolesPut(s, id, b)
    \/ \E s \in Slots, a \in AuditCases : RolesPutUpdate(s, a[1], a[2])
    \/ \E id \in KnownRoleIds, a \in AuditCases : RolesDelete(id, a[1], a[2])

SpecRoleRoutes == InitRoleRoutes /\ [][NextRoleRoutes]_vars

\* C12: every stored role has a name of length 4..40; a role update with a
\* shorter or longer name changes no role.
C12_RoleNamesBounded ==
    [][/\ \A k \in DOMAIN roles' : RoleNameOk(roles'[k].name)
       /\ \A s \in Slots, a \in AuditCases :
             (inflight[s].kind = "rolesPut" /\ ~RoleNameOk(inflight[s].newRole.name)
                 /\ RolesPutUpdate(s, a[1], a[2]))
             => roles' = roles]_vars

\* C14: the delete of a service identifier or of a role identifier that no
\* stored document has is answered NotFound (404).
C14_DeleteUnknownNotFound ==
    (resp.op \in {"servicesDelete", "rolesDelete"} /\ ~resp.obs.found)
    => resp.status = 404

\* C15: a role update with registered serviceOpIds for a role identifier
\* that no stored role has is answered NotFound (404, or 400 as the route
\* documents it) and adds no role.
C15_UpdateUnknownRoleNotFound ==
    [][\A s \in Slots, a \in AuditCases :
          (inflight[s].kind = "rolesPut" /\ inflight[s].refsKnown
              /\ IndexOf(roles, inflight[s].id) = 0 /\ RolesPutUpdate(s, a[1], a[2]))
          => (resp'.status \in {400, 404} /\ roles' = roles)]_vars

----------------------------------------------------------------------------
(* Paged lists                                                             *)

maxPageSize == 100

\* a query parameter is absent (<<>>) or given (<<n>>)
Given(n) == <<n>>
Absent == <<>>

\* Query.skip(n), Query.limit(n)
skip(docs, n) == SubSeq(docs, n + 1, Len(docs))
limit(docs, n) == SubSeq(docs, 1, IF n < Len(docs) THEN n ELSE Len(docs))

\* Query.sort('{name: 1}'): the string is a space delimited list of paths,
\* here the paths "{name:" and "1}", which no document has, so every
\* document has the same sort key and the sort keeps the order of the store
SortKey(doc) == <<>>
RECURSIVE sortInsert(_, _)
sortInsert(sorted, doc) ==
    IF sorted = <<>> \/ SortKey(sorted[Len(sorted)]) = SortKey(doc)
    THEN Append(sorted, doc)
    ELSE Append(sortInsert(SubSeq(sorted, 1, Len(sorted) - 1), doc), sorted[Len(sorted)])
RECURSIVE sortFrom(_, _, _)
sortFrom(docs, i, sorted) ==
    IF i > Len(docs) THEN sorted ELSE sortFrom(docs, i + 1, sortInsert(sorted, docs[i]))
sort(docs) == sortFrom(docs, 1, <<>>)

\* a link is modelled by the page it leads to
Link(pageSize, pageNumber) == <<[pageSize |-> pageSize, pageNumber |-> pageNumber]>>

\* mutant: a prev link on every page
buildResponse_prevAlways(pageNumber, pageSize, products) ==
    [pageSize |-> pageSize, pageNumber |-> pageNumber,
     links |-> [prev |-> Link(pageSize, pageNumber - 1),
                next |-> IF Len(products) = pageSize
                         THEN Link(pageSize, pageNumber + 1) ELSE <<>>],
     results |-> products]

buildResponse(pageNumber, pageSize, products) ==
    [pageSize |-> pageSize, pageNumber |-> pageNumber,
     links |-> [prev |-> IF pageNumber > 1 THEN Link(pageSize, pageNumber - 1) ELSE <<>>,
                next |-> IF Len(products) = pageSize
                         THEN Link(pageSize, pageNumber + 1) ELSE <<>>],
     results |-> products]

\* mutant: a page of maxPageSize entries refused too
getServices_inclusiveMax(query) ==
    LET pageSize == IF query.pageSize = Absent THEN 10 ELSE query.pageSize[1]
        pageNumber == IF query.pageNumber = Absent THEN 1 ELSE query.pageNumber[1]
        products == limit(skip(sort(services), (pageNumber - 1) * pageSize), pageSize)
    IN IF pageSize >= maxPageSize
       THEN [thrown |-> RouteHandlingError(413), result |-> <<>>]
       ELSE [thrown |-> NoError,
             result |-> <<buildResponse(pageNumber, pageSize, products)>>]

\* getServices: what it throws, or the page it returns
getServices(query) ==
    LET pageSize == IF query.pageSize = Absent THEN 10 ELSE query.pageSize[1]
        pageNumber == IF query.pageNumber = Absent THEN 1 ELSE query.pageNumber[1]
        products == limit(skip(sort(services), (pageNumber - 1) * pageSize), pageSize)
    IN IF pageSize > maxPageSize
       THEN [thrown |-> RouteHandlingError(413), result |-> <<>>]
       ELSE [thrown |-> NoError,
             result |-> <<buildResponse(pageNumber, pageSize, products)>>]

\* getRoles
getRoles(query) ==
    LET pageSize == IF query.pageSize = Absent THEN 10 ELSE query.pageSize[1]
        pageNumber == IF query.pageNumber = Absent THEN 1 ELSE query.pageNumber[1]
        products == limit(skip(sort(roles), (pageNumber - 1) * pageSize), pageSize)
    IN IF pageSize > maxPageSize
       THEN [thrown |-> RouteHandlingError(413), result |-> <<>>]
       ELSE [thrown |-> NoError,
             result |-> <<buildResponse(pageNumber, pageSize, products)>>]

\* GET /api/v1/services
ServicesGetList(query) ==
    LET result == getServices(query)
    IN /\ resp' = Response("servicesList", StatusOf(result.thrown, 200), result.result,
                           NoObs)
       /\ UNCHANGED <<services, roles, nextSvcId, nextOpId, nextRoleId, inflight,
                      svcDeleted, cap>>

\* GET /api/v1/roles
RolesGetList(query) ==
    LET result == getRoles(query)
    IN /\ resp' = Response("rolesList", StatusOf(result.thrown, 200), result.result,
                           NoObs)
       /\ UNCHANGED <<services, roles, nextSvcId, nextOpId, nextRoleId, inflight,
                      svcDeleted, cap>>

----------------------------------------------------------------------------
(* List requests over collections of every size up to MaxItems             *)

MaxItems == 25       \* documents of a collection that is listed
MaxPage == 4         \* highest pageNumber of a request
MaxSmallPage == 10   \* page sizes 1..MaxSmallPage, besides those around maxPageSize

\* pageNumber >= 1 and pageSize >= 1, or absent
Queries ==
    [pageSize : {Absent} \cup {Given(n) : n \in (1..MaxSmallPage)
                                             \cup {maxPageSize, maxPageSize + 1}},
     pageNumber : {Absent} \cup {Given(n) : n \in 1..MaxPage}]

\* n services and n roles, as n creates leave them
InitPaging ==
    /\ cap = [svcs |-> MaxItems, ops |-> 0, roles |-> MaxItems]
    /\ \E n \in 0..MaxItems :
          /\ services = [i \in 1..n |->
                            Service(i, SERVICENAME_MIN_LENGTH + (i % 2), <<>>)]
          /\ roles = [i \in 1..n |->
                         [id |-> i, name |-> ROLENAME_MIN_LENGTH + (i % 2),
                          serviceOpIds |-> <<>>]]
          /\ nextSvcId = n + 1
          /\ nextRoleId = n + 1
    /\ nextOpId = 1
    /\ inflight = [s \in 1..1 |-> Idle]
    /\ resp = NoResp
    /\ svcDeleted = FALSE

NextPaging ==
    \/ \E q \in Queries : ServicesGetList(q)
    \/ \E q \in Queries : RolesGetList(q)

SpecPaging == InitPaging /\ [][NextPaging]_vars

\* the collection a list response was taken from
Listed == IF resp.op = "servicesList" THEN services ELSE roles

C17_NextLinkHasNextPage ==
    (resp.op \in {"servicesList", "rolesList"} /\ resp.status = 200
        /\ resp.body[1].links.next # <<>>)
    => Len(Listed) > resp.body[1].pageNumber * resp.body[1].pageSize

----------------------------------------------------------------------------
(* The API key middleware in front of every route                          *)

\* the secret the process is configured with (RBAC_API_KEY)
RBAC_API_KEY == "secret"

\* the x-api-key header of a request: absent, empty, another key, the secret
Tokens == {Absent, Given(""), Given("other"), Given(RBAC_API_KEY)}

\* mutant: only a header that is present is compared
isValidApiKey_absentPasses(token, op, next) ==
    IF token # Absent /\ token[1] # RBAC_API_KEY
    THEN /\ resp' = Response(op, 401, <<>>, NoObs)
         /\ UNCHANGED <<services, roles, nextSvcId, nextOpId, nextRoleId, inflight,
                        svcDeleted, cap>>
    ELSE next

\* isValidApiKey(req, res, next) for a request to the route op: the 401
\* response, or next(), the handler of the route
isValidApiKey(token, op, next) ==
    IF token = Absent \/ token[1] = "" \/ token[1] # RBAC_API_KEY
    THEN /\ resp' = Response(op, 401, <<>>, NoObs)
         /\ UNCHANGED <<services, roles, nextSvcId, nextOpId, nextRoleId, inflight,
                        svcDeleted, cap>>
    ELSE next

\* auditing disabled
NoAudit == {<<FALSE, TRUE>>}
\* a list request without parameters
PlainQuery == {[pageSize |-> Absent, pageNumber |-> Absent]}

\* a request with the header token to any route of the three routers, the
\* audit service in one of the cases audits, a list request with one of
\* the parameters queries
Requests(token, audits, queries) ==
    \/ \E b \in ServiceBodies(OneSvcName, 1), a \in audits :
          isValidApiKey(token, "servicesPost", ServicesPost(b, a[1], a[2]))
    \/ \E s \in Slots, b \in OperationBodies(1) :
          isValidApiKey(token, "servicesPostOperation", ServicesPostOperation(s, b))
    \/ \E s \in Slots, id \in KnownSvcIds, b \in ServiceUpdates(OneSvcName, 1) :
          isValidApiKey(token, "servicesPut", ServicesPut(s, id, b))
    \/ \E id \in KnownSvcIds, a \in audits :
          isValidApiKey(token, "servicesDelete", ServicesDelete(id, a[1], a[2]))
    \/ \E id \in KnownSvcIds : isValidApiKey(token, "servicesGet", ServicesGet(id))
    \/ \E q \in queries : isValidApiKey(token, "servicesList", ServicesGetList(q))
    \/ \E s \in Slots, b \in RoleBodies(OneRoleName, 1) :
          isValidApiKey(token, "rolesPost", RolesPost(s, b))
    \/ \E s \in Slots, id \in KnownRoleIds, b \in RoleBodies(OneRoleName, 1) :
          isValidApiKey(token, "rolesPut", RolesPut(s, id, b))
    \/ \E id \in KnownRoleIds : isValidApiKey(token, "rolesGet", RolesGet(id))
    \/ \E q \in queries : isValidApiKey(token, "rolesList", RolesGetList(q))
    \/ \E id \in KnownRoleIds, a \in audits :
          isValidApiKey(token, "rolesDelete", RolesDelete(id, a[1], a[2]))
    \/ \E s \in Slots, ids \in RoleIdLists(MaxList) :
          isValidApiKey(token, "rolexpand", RolexpandPost(s, ids))

\* a request with auditing disabled and a list request without parameters
Request(token) == Requests(token, NoAudit, PlainQuery)

\* the later steps of the requests that were let through
Continues(audits) ==
    \/ \E s \in Slots, a \in audits : ServicesPostOperationSave(s, a[1], a[2])
    \/ \E s \in Slots, a \in audits : ServicesPutSave(s, a[1], a[2])
    \/ \E s \in Slots, a \in audits : RolesPostSave(s, a[1], a[2])
    \/ \E s \in Slots, a \in audits : RolesPutUpdate(s, a[1], a[2])
    \/ \E s \in Slots : RolexpandNext(s)

\* the later steps with auditing disabled
Continue == Continues(NoAudit)

AuthCap == [svcs |-> 1, ops |-> 1, roles |-> 1]

InitAuth ==
    /\ cap = AuthCap
    /\ services = <<>>
    /\ roles = <<>>
    /\ nextSvcId = 1
    /\ nextOpId = 1
    /\ nextRoleId = 1
    /\ inflight = [s \in 1..1 |-> Idle]
    /\ resp = NoResp
    /\ svcDeleted = FALSE

NextAuth ==
    \/ \E token \in Tokens : Request(token)
    \/ Continue

SpecAuth == InitAuth /\ [][NextAuth]_vars

\* C19: a request to any route whose x-api-key header is absent or is not
\* the configured secret is answered 401 and its handler does not run: the
\* services, the roles, the identifiers issued and the requests in flight
\* are as before.
C19_BadKeyRejected ==
    [][\A token \in Tokens :
          (token # Given(RBAC_API_KEY) /\ Request(token))
          => /\ resp'.status = 401 /\ resp'.body = <<>>
             /\ UNCHANGED <<services, roles, nextSvcId, nextOpId, nextRoleId, inflight,
                            svcDeleted>>]_vars

\* a delete of a stored service without the header was answered 401 and the
\* service and a role referring to it are still stored
C19_Witness ==
    /\ resp.op = "servicesDelete" /\ resp.status = 401
    /\ services # <<>> /\ ~svcDeleted
    /\ \E i \in DOMAIN roles : roles[i].serviceOpIds # <<>>

----------------------------------------------------------------------------
(* Mutations with the audit service up or down                             *)

AuditCap == [svcs |-> 1, ops |-> 2, roles |-> 1]

\* two valid service names, so that an update changes the name
TwoSvcNames == {SERVICENAME_MIN_LENGTH, SERVICENAME_MIN_LENGTH + 1}

InitAudit ==
    /\ cap = AuditCap
    /\ services = <<>>
    /\ roles = <<>>
    /\ nextSvcId = 1
    /\ nextOpId = 1
    /\ nextRoleId = 1
    /\ inflight = [s \in 1..1 |-> Idle]
    /\ resp = NoResp
    /\ svcDeleted = FALSE

NextAudit ==
    \/ \E b \in ServiceBodies(OneSvcName, 1), a \in AuditCases :
          ServicesPost(b, a[1], a[2])
    \/ \E s \in Slots, b \in OperationBodies(1) : ServicesPostOperation(s, b)
    \/ \E s \in Slots, a \in AuditCases : ServicesPostOperationSave(s, a[1], a[2])
    \/ \E s \in Slots, id \in KnownSvcIds, b \in ServiceUpdates(TwoSvcNames, 1) :
          ServicesPut(s, id, b)
    \/ \E s \in Slots, a \in AuditCases : ServicesPutSave(s, a[1], a[2])
    \/ \E id \in KnownSvcIds, a \in AuditCases : ServicesDelete(id, a[1], a[2])
    \/ \E s \in Slots, b \in RoleBodies(OneRoleName, 1) : RolesPost(s, b)
    \/ \E s \in Slots, a \in AuditCases : RolesPostSave(s, a[1], a[2])
    \/ \E s \in Slots, id \in KnownRoleIds, b \in RoleBodies(OneRoleName, 1) :
          RolesPut(s, id, b)
    \/ \E s \in Slots, a \in AuditCases : RolesPutUpdate(s, a[1], a[2])
    \/ \E id \in KnownRoleIds, a \in AuditCases : RolesDelete(id, a[1], a[2])

SpecAudit == InitAudit /\ [][NextAudit]_vars

\* the stored document with this identifier, before and after the step
SvcBefore(id) == findById(services, id)[1]
SvcAfter(id) == findById(services', id)[1]
RoleAfter(id) == findById(roles', id)[1]

\* C20: with auditing enabled and the audit service down, every mutation
\* that was written is answered 424 and is in the store after the request:
\* the created service or role is stored, the added operations are on the
\* service, the updated service or role has its new values, the deleted
\* service or role is gone.
C20_AuditFailureKeepsMutation ==
    [][/\ \A b \in ServiceBodies(OneSvcName, 1) :
             (ServicesPost(b, TRUE, FALSE) /\ services' # services)
             => resp'.status = 424 /\ Persisted(b)
       /\ \A s \in Slots :
             /\ (ServicesPostOperationSave(s, TRUE, FALSE) /\ resp'.status # 500)
                => /\ resp'.status = 424
                   /\ SvcAfter(inflight[s].id).operations
                         = SvcBefore(inflight[s].id).operations \o inflight[s].pushed
             /\ (ServicesPutSave(s, TRUE, FALSE) /\ resp'.status # 500)
                => /\ resp'.status = 424
                   /\ SvcAfter(inflight[s].id).name = inflight[s].name
                   /\ \A set \in inflight[s].setOps :
                         SvcAfter(inflight[s].id).operations[set[1]].name = set[2]
             /\ RolesPostSave(s, TRUE, FALSE)
                => /\ resp'.status = 424
                   /\ Len(roles') = Len(roles) + 1
                   /\ roles'[Len(roles')].name = inflight[s].newRole.name
                   /\ roles'[Len(roles')].serviceOpIds = inflight[s].newRole.serviceOpIds
             /\ (RolesPutUpdate(s, TRUE, FALSE) /\ findById(roles, inflight[s].id) # <<>>)
                => /\ resp'.status = 424
                   /\ RoleAfter(inflight[s].id).name = inflight[s].newRole.name
                   /\ RoleAfter(inflight[s].id).serviceOpIds
                         = inflight[s].newRole.serviceOpIds
       /\ \A id \in KnownSvcIds :
             (ServicesDelete(id, TRUE, FALSE) /\ findById(services, id) # <<>>)
             => resp'.status = 424 /\ findById(services', id) = <<>>
       /\ \A id \in KnownRoleIds :
             (RolesDelete(id, TRUE, FALSE) /\ findById(roles, id) # <<>>)
             => resp'.status = 424 /\ findById(roles', id) = <<>>]_vars

\* operations were added to a service and the request was answered 424: the
\* service has the operations it was created with and the added one
C20_Witness ==
    /\ resp.op = "servicesPostOperation" /\ resp.status = 424 /\ resp.obs.auditFailed
    /\ \E i \in DOMAIN services : Len(services[i].operations) = 2

----------------------------------------------------------------------------
(* Every route behind the middleware, with every outcome of the audit      *)

RequestsCap == [svcs |-> 1, ops |-> 1, roles |-> 1]

\* list requests: without parameters, and with a page size over the limit
ListQueries ==
    PlainQuery \cup {[pageSize |-> Given(maxPageSize + 1), pageNumber |-> Absent]}

InitRequests ==
    /\ cap = RequestsCap
    /\ services = <<>>
    /\ roles = <<>>
    /\ nextSvcId = 1
    /\ nextOpId = 1
    /\ nextRoleId = 1
    /\ inflight = [s \in 1..1 |-> Idle]
    /\ resp = NoResp
    /\ svcDeleted = FALSE

NextRequests ==
    \/ \E token \in Tokens : Requests(token, AuditCases, ListQueries)
    \/ Continues(AuditCases)

SpecRequests == InitRequests /\ [][NextRequests]_vars

\* the statuses of a success and of the five error kinds
Success == {200, 201}
ErrorKinds == {400, 404, 413, 424, 500}

\* a step answers with one of the statuses, and a request is answered at
\* the step that ends it and at no other: the step that puts a request in
\* flight sends nothing, a request in flight stays the request it is, and
\* the step that ends it sends the response of its route
OneResponse(statuses) ==
    /\ resp' # resp => resp'.status \in statuses
    /\ \A s \in Slots :
          /\ (inflight[s].kind = "idle" /\ inflight'[s].kind # "idle") => resp' = resp
          /\ (inflight[s].kind # "idle" /\ inflight'[s].kind # "idle")
             => inflight'[s].kind = inflight[s].kind
          /\ (inflight[s].kind # "idle" /\ inflight'[s].kind = "idle")
             => resp'.op = inflight[s].kind /\ resp'.status \in statuses

----------------------------------------------------------------------------
(* Writes on a service, one request at a time                              *)

ServiceEditsCap == [svcs |-> 2, ops |-> 3, roles |-> 1]

\* after two service creates (one with the operation a, one without
\* operations) and the create of a role on that operation
TwoServicesOneRole ==
    /\ cap = ServiceEditsCap
    /\ services = <<Service(1, SERVICENAME_MIN_LENGTH, <<Operation(1, "a")>>),
                    Service(2, SERVICENAME_MIN_LENGTH, <<>>)>>
    /\ roles = <<[id |-> 1, name |-> ROLENAME_MIN_LENGTH, serviceOpIds |-> <<1>>]>>
    /\ nextSvcId = 3
    /\ nextOpId = 2
    /\ nextRoleId = 2
    /\ inflight = [s \in 1..1 |-> Idle]
    /\ resp = Response("rolesPost", 201, <<>>, NoObs)
    /\ svcDeleted = FALSE

InitServiceEdits == TwoServicesOneRole

NextServiceEdits ==
    \/ \E s \in Slots, b \in OperationBodies(MaxList) : ServicesPostOperation(s, b)
    \/ \E s \in Slots, a \in NoAudit : ServicesPostOperationSave(s, a[1], a[2])
    \/ \E s \in Slots, id \in KnownSvcIds, b \in ServiceUpdates(TwoSvcNames, MaxList) :
          ServicesPut(s, id, b)
    \/ \E s \in Slots, a \in NoAudit : ServicesPutSave(s, a[1], a[2])
    \/ \E id \in KnownSvcIds, a \in NoAudit : ServicesDelete(id, a[1], a[2])

SpecServiceEdits == InitServiceEdits /\ [][NextServiceEdits]_vars

\* the names of a list of operations, in order
Names(operations) == [j \in DOMAIN operations |-> operations[j].name]

\* every service but the one with this identifier is as before
OtherServicesUnchanged(id) ==
    /\ Len(services') = Len(services)
    /\ \A i \in DOMAIN services :
          /\ services'[i].id = services[i].id
          /\ services[i].id # id => services'[i] = services[i]

\* C22: an add-operations request answered 201 leaves the operations the
\* service had (identifiers, names, order) as a prefix of its list and
\* appends one operation per entry of the request, with the names of the
\* request in the order of the request, also when the service already has an
\* operation of that name; the name of the service, every other service
\* and every role are unchanged.
C22_AddOperationsAppends ==
    [][\A s \in Slots, a \in NoAudit :
          (ServicesPostOperationSave(s, a[1], a[2]) /\ resp'.status = 201)
          => LET id == inflight[s].id
                 before == SvcBefore(id)
                 after == SvcAfter(id)
                 n == Len(before.operations)
             IN /\ Len(after.operations) = n + Len(inflight[s].pushed)
                /\ SubSeq(after.operations, 1, n) = before.operations
                /\ Names(SubSeq(after.operations, n + 1, Len(after.operations)))
                      = Names(inflight[s].pushed)
                /\ after.name = before.name
                /\ after.id = before.id
                /\ OtherServicesUnchanged(id)
                /\ roles' = roles]_vars

\* the operations b, a were added in one request to the service that had
\* the operation a: it has a, b, a
C22_Witness ==
    /\ resp.op = "servicesPostOperation" /\ resp.status = 201
    /\ \E i \in DOMAIN services : Names(services[i].operations) = <<"a", "b", "a">>
    /\ Len(services) = 2 /\ roles # <<>>

----------------------------------------------------------------------------
(* Updates of a service with two operations                                *)

ServiceUpdateCap == [svcs |-> 2, ops |-> 2, roles |-> 1]

\* after two service creates (one with the operations a and b, one without
\* operations) and the create of a role on these operations
InitServiceUpdate ==
    /\ cap = ServiceUpdateCap
    /\ services = OneServiceTwoOps \o <<Service(2, SERVICENAME_MIN_LENGTH, <<>>)>>
    /\ roles = <<[id |-> 1, name |-> ROLENAME_MIN_LENGTH, serviceOpIds |-> <<1, 2>>]>>
    /\ nextSvcId = 3
    /\ nextOpId = 3
    /\ nextRoleId = 2
    /\ inflight = [s \in 1..1 |-> Idle]
    /\ resp = Response("rolesPost", 201, <<>>, NoObs)
    /\ svcDeleted = FALSE

NextServiceUpdate ==
    \/ \E s \in Slots, id \in KnownSvcIds, b \in ServiceUpdates(TwoSvcNames, MaxList) :
          ServicesPut(s, id, b)
    \/ \E s \in Slots, a \in NoAudit : ServicesPutSave(s, a[1], a[2])
    \/ \E id \in KnownSvcIds, a \in NoAudit : ServicesDelete(id, a[1], a[2])

SpecServiceUpdate == InitServiceUpdate /\ [][NextServiceUpdate]_vars

\* the identifiers of a list of operations, in order
Ids(operations) == [j \in DOMAIN operations |-> operations[j].id]

\* the name an operation is to have after an update with the operations
\* incoming: the name of the last incoming operation with its identifier,
\* its own name when there is none
NameAfter(operation, incoming) ==
    LET matching == {i \in DOMAIN incoming : incoming[i].id = operation.id}
    IN IF matching = {} THEN operation.name
       ELSE incoming[CHOOSE i \in matching : \A k \in matching : k <= i].name

\* the name the request in flight is to give the j-th operation
NameSet(r, operations, j) ==
    IF \E set \in r.setOps : set[1] = j
    THEN (CHOOSE set \in r.setOps : set[1] = j)[2]
    ELSE operations[j].name

\* C23: a service update answered 201 has replaced the name of the service
\* and renamed in place the operations whose identifier an incoming
\* operation has; incoming operations with another identifier are ignored:
\* the identifiers of the operations of the service are the same, in the
\* same order; every other service and every role is unchanged.
C23_UpdateRenamesInPlace ==
    [][/\ \A s \in Slots, id \in KnownSvcIds, b \in ServiceUpdates(TwoSvcNames, MaxList) :
             (findById(services, id) # <<>> /\ ServicesPut(s, id, b))
             => /\ inflight'[s].name = b.name
                /\ \A j \in DOMAIN SvcBefore(id).operations :
                      NameSet(inflight'[s], SvcBefore(id).operations, j)
                         = NameAfter(SvcBefore(id).operations[j], b.operations)
       /\ \A s \in Slots, a \in NoAudit :
             (ServicesPutSave(s, a[1], a[2]) /\ resp'.status = 201)
             => LET id == inflight[s].id
                    before == SvcBefore(id)
                    after == SvcAfter(id)
                IN /\ after.name = inflight[s].name
                   /\ after.id = before.id
                   /\ Ids(after.operations) = Ids(before.operations)
                   /\ \A j \in DOMAIN before.operations :
                         after.operations[j].name
                            = NameSet(inflight[s], before.operations, j)
                   /\ OtherServicesUnchanged(id)
                   /\ roles' = roles]_vars

\* the service was renamed and its first operation too; its operations
\* have the identifiers they were created with and the role refers to them
C23_Witness ==
    /\ resp.op = "servicesPut" /\ resp.status = 201
    /\ \E i \in DOMAIN services :
          /\ services[i].name = SERVICENAME_MIN_LENGTH + 1
          /\ Names(services[i].operations) = <<"b", "b">>
          /\ Ids(services[i].operations) = <<1, 2>>
    /\ roles # <<>> /\ roles[1].serviceOpIds = <<1, 2>>

----------------------------------------------------------------------------
(* Interleaved writes on one service                                       *)

ServiceRacesCap == [svcs |-> 1, ops |-> 3, roles |-> 0]

InitServiceRaces == Registered(OneServiceOneOp, 1, MaxSlots, ServiceRacesCap)

NextServiceRaces ==
    \/ \E s \in Slots, b \in OperationBodies(1) : ServicesPostOperation(s, b)
    \/ \E s \in Slots, a \in NoAudit : ServicesPostOperationSave(s, a[1], a[2])
    \/ \E s \in Slots, id \in KnownSvcIds, b \in ServiceUpdates(TwoSvcNames, 1) :
          ServicesPut(s, id, b)
    \/ \E s \in Slots, a \in NoAudit : ServicesPutSave(s, a[1], a[2])
    \/ \E id \in KnownSvcIds, a \in NoAudit : ServicesDelete(id, a[1], a[2])

SpecServiceRaces == InitServiceRaces /\ [][NextServiceRaces]_vars

\* identifiers of the operations that add-operations requests in flight
\* have yet to save
PendingOpIds ==
    UNION {{inflight[s].pushed[j].id : j \in DOMAIN inflight[s].pushed} :
              s \in {t \in Slots : inflight[t].kind = "servicesPostOperation"}}

\* C28: when add-operations and update requests on a service interleave,
\* no change of a request answered 201 is lost.  The save of an
\* add-operations request appends its operations to the operations stored
\* at that moment, whoever stored them; the save of an update keeps every
\* stored operation and every name it does not set itself; and, as long as
\* no service is deleted, every operation ever added is stored or is still
\* to be saved by its request.
C28_NoLostUpdate ==
    [][/\ \A s \in Slots, a \in NoAudit :
             /\ (ServicesPostOperationSave(s, a[1], a[2]) /\ resp'.status = 201)
                => LET id == inflight[s].id
                   IN /\ SvcAfter(id).operations
                            = SvcBefore(id).operations \o inflight[s].pushed
                      /\ SvcAfter(id).name = SvcBefore(id).name
             /\ (ServicesPutSave(s, a[1], a[2]) /\ resp'.status = 201)
                => LET id == inflight[s].id
                   IN /\ Ids(SvcAfter(id).operations) = Ids(SvcBefore(id).operations)
                      /\ \A j \in DOMAIN SvcBefore(id).operations :
                            SvcAfter(id).operations[j].name
                               = NameSet(inflight[s], SvcBefore(id).operations, j)
       /\ ~svcDeleted'
          => AllOpIds(services') \cup PendingOpIds' = 1..(nextOpId' - 1)]_vars

\* two add-operations requests interleaved and both were answered 201: the
\* request that loaded the service first saved last, and the operations of
\* both are stored
C28_Witness ==
    /\ resp.op = "servicesPostOperation" /\ resp.status = 201
    /\ ~svcDeleted
    /\ \E i \in DOMAIN services : Ids(services[i].operations) = <<1, 3, 2>>

\* C29: a service that was deleted does not come back: an identifier that
\* was issued and resolves to no service resolves to no service after any
\* step, in particular after the save of an add-operations or update
\* request that loaded the service before it was deleted.
C29_DeletedStaysDeleted ==
    [][\A id \in KnownSvcIds :
          findById(services, id) = <<>> => findById(services', id) = <<>>]_vars

\* an update loaded the service, the service was deleted, and the save of
\* the update failed: no service is stored
C29_Witness ==
    /\ svcDeleted
    /\ resp.op = "servicesPut" /\ resp.status = 500 /\ ~resp.obs.found
    /\ services = <<>>

----------------------------------------------------------------------------
(* Role expansion while other clients write roles                          *)

ExpandRacesCap == [svcs |-> 1, ops |-> 1, roles |-> 2]

\* one client expands roles while another one updates them
Expander == {1}
Writer == {2}

\* after a service create with the operation a and two role creates on it
InitExpandRaces ==
    /\ cap = ExpandRacesCap
    /\ services = OneServiceOneOp
    /\ roles = <<[id |-> 1, name |-> ROLENAME_MIN_LENGTH, serviceOpIds |-> <<1>>],
                 [id |-> 2, name |-> ROLENAME_MIN_LENGTH, serviceOpIds |-> <<1>>]>>
    /\ nextSvcId = 2
    /\ nextOpId = 2
    /\ nextRoleId = 3
    /\ inflight = [s \in Expander \cup Writer |-> Idle]
    /\ resp = Response("rolesPost", 201, <<>>, NoObs)
    /\ svcDeleted = FALSE

NextExpandRaces ==
    \/ \E s \in Writer, id \in KnownRoleIds, b \in RoleBodies(OneRoleName, 1) :
          RolesPut(s, id, b)
    \/ \E s \in Writer, a \in NoAudit : RolesPutUpdate(s, a[1], a[2])
    \/ \E s \in Expander, ids \in RoleIdLists(MaxList) : RolexpandPost(s, ids)
    \/ \E s \in Expander : RolexpandNext(s)

SpecExpandRaces == InitExpandRaces /\ [][NextExpandRaces]_vars

\* C30: the list of an expansion answered 201 is the expansion of its
\* roleIds over one of the roles collections that existed between the start
\* and the end of the request.
C30_ExpansionOverOneState ==
    [][/\ \A s \in Slots, ids \in RoleIdLists(MaxList) :
             (RolexpandPost(s, ids) /\ inflight'[s] = Idle /\ resp'.status = 201)
             => resp'.body = ListsInOrder(ids, roles)
       /\ \A s \in Slots :
             (RolexpandNext(s) /\ inflight'[s] = Idle /\ resp'.status = 201)
             => \E coll \in inflight[s].seen :
                   /\ Resolves(inflight[s].roleIds, coll)
                   /\ resp'.body = ListsInOrder(inflight[s].roleIds, coll)]_vars

====
